---- MODULE Spec2Model ----
(***************************************************************************)
(* Model of the maze generator (src/src/maze.ts) and of the wall-drawing   *)
(* loop of the renderer (src/src/renderer.ts).                             *)
(*                                                                         *)
(* The grid is a sequence of rows, each a sequence of Cell records, as in  *)
(* the source (Cell[][]).  Source indices are zero-based; TLA+ sequences   *)
(* are one-based, so grid[r]?.[c] of the source is g[r + 1][c + 1] here.   *)
(* A reference to a Cell object (an entry of the stack, `current`, `next`) *)
(* is the record [row, col] of its coordinates.                            *)
(***************************************************************************)
EXTENDS Integers, Sequences, FiniteSets

\* ---------------------------------------------------------------- bounds

\* Largest number of rows and of columns a call is made with.
MaxRows == 3
MaxCols == 3
\* The most negative dimension a call is made with is -MaxNeg.
MaxNeg == 1
\* Math.random() is drawn from { k / RandomResolution : 0 <= k < RandomResolution }.
RandomResolution == 4

VARIABLES
    rows,     \* argument of generateMaze
    cols,     \* argument of generateMaze
    grid,     \* local `grid` of generateMaze
    stack,    \* local `stack` of generateMaze: references to cells
    pc,       \* "call", "loop", "returned", "error", "rendered"
    maze,     \* the Maze returned by generateMaze, or NoMaze
    pushes,   \* history: the references pushed on the stack so far, in order
    options,  \* argument of renderMaze: offsetX, offsetY, cellSize, wallThickness
    strokes   \* the ctx.stroke() calls renderMaze has made, in order

vars == <<rows, cols, grid, stack, pc, maze, pushes, options, strokes>>

NoMaze == [rows |-> 0, cols |-> 0, cells |-> <<>>,
           start |-> [row |-> 0, col |-> 0], end |-> [row |-> 0, col |-> 0]]

Sides == {"top", "right", "bottom", "left"}

Ref(r, c) == [row |-> r, col |-> c]

\* ------------------------------------------------------------------ grid

\* grid[r]?.[c] is defined
HasCell(g, r, c) == (r + 1) \in DOMAIN g /\ (c + 1) \in DOMAIN g[r + 1]

CellAt(g, r, c) == g[r + 1][c + 1]

createGrid(rws, cls) ==
    [r \in 1..rws |->
        [c \in 1..cls |->
            [row |-> r - 1, col |-> c - 1,
             walls |-> [top |-> TRUE, right |-> TRUE, bottom |-> TRUE, left |-> TRUE],
             visited |-> FALSE]]]

\* One of the four `if` blocks of getUnvisitedNeighbors: the neighbour at
\* (r, c) is pushed when the bounds test holds, the cell exists and it is
\* not visited.
PushIfUnvisited(g, inBounds, r, c) ==
    IF inBounds /\ HasCell(g, r, c) /\ ~CellAt(g, r, c).visited
    THEN <<Ref(r, c)>>
    ELSE <<>>

\* variant: the !visited tests are missing
getUnvisitedNeighbors_IgnoreVisited(g, cell) ==
    LET rws == Len(g)
        cls == IF Len(g) > 0 THEN Len(g[1]) ELSE 0
        row == cell.row
        col == cell.col
        any(inBounds, r, c) == IF inBounds /\ HasCell(g, r, c) THEN <<Ref(r, c)>> ELSE <<>>
    IN  any(row > 0, row - 1, col)
        \o any(row < rws - 1, row + 1, col)
        \o any(col > 0, row, col - 1)
        \o any(col < cls - 1, row, col + 1)

\* variant: the bottom and right bounds tests stop one cell early
getUnvisitedNeighbors_OffByOne(g, cell) ==
    LET rws == Len(g)
        cls == IF Len(g) > 0 THEN Len(g[1]) ELSE 0
        row == cell.row
        col == cell.col
    IN  PushIfUnvisited(g, row > 0, row - 1, col)
        \o PushIfUnvisited(g, row < rws - 2, row + 1, col)
        \o PushIfUnvisited(g, col > 0, row, col - 1)
        \o PushIfUnvisited(g, col < cls - 2, row, col + 1)

\* variant: rows and cols are read from the wrong dimension of the grid
getUnvisitedNeighbors_RowsColsSwapped(g, cell) ==
    LET rws == IF Len(g) > 0 THEN Len(g[1]) ELSE 0
        cls == Len(g)
        row == cell.row
        col == cell.col
    IN  PushIfUnvisited(g, row > 0, row - 1, col)
        \o PushIfUnvisited(g, row < rws - 1, row + 1, col)
        \o PushIfUnvisited(g, col > 0, row, col - 1)
        \o PushIfUnvisited(g, col < cls - 1, row, col + 1)

getUnvisitedNeighbors(g, cell) ==
    LET rws == Len(g)
        cls == IF Len(g) > 0 THEN Len(g[1]) ELSE 0
        row == cell.row
        col == cell.col
    IN  PushIfUnvisited(g, row > 0, row - 1, col)
        \o PushIfUnvisited(g, row < rws - 1, row + 1, col)
        \o PushIfUnvisited(g, col > 0, row, col - 1)
        \o PushIfUnvisited(g, col < cls - 1, row, col + 1)

\* cell.walls.<side> = false
ClearWall(g, cell, side) ==
    [g EXCEPT ![cell.row + 1][cell.col + 1].walls[side] = FALSE]

\* variant: only the current cell's flag is cleared
removeWallBetween_CurrentOnly(g, current, next) ==
    LET dx == next.col - current.col
        dy == next.row - current.row
    IN  IF dx = 1 THEN ClearWall(g, current, "right")
        ELSE IF dx = -1 THEN ClearWall(g, current, "left")
        ELSE IF dy = 1 THEN ClearWall(g, current, "bottom")
        ELSE IF dy = -1 THEN ClearWall(g, current, "top")
        ELSE g

\* variant: dx and dy are computed from the wrong coordinate
removeWallBetween_AxesSwapped(g, current, next) ==
    LET dx == next.row - current.row
        dy == next.col - current.col
    IN  IF dx = 1 THEN ClearWall(ClearWall(g, current, "right"), next, "left")
        ELSE IF dx = -1 THEN ClearWall(ClearWall(g, current, "left"), next, "right")
        ELSE IF dy = 1 THEN ClearWall(ClearWall(g, current, "bottom"), next, "top")
        ELSE IF dy = -1 THEN ClearWall(ClearWall(g, current, "top"), next, "bottom")
        ELSE g

\* variant: the dy branches are missing
removeWallBetween_HorizontalOnly(g, current, next) ==
    LET dx == next.col - current.col
    IN  IF dx = 1 THEN ClearWall(ClearWall(g, current, "right"), next, "left")
        ELSE IF dx = -1 THEN ClearWall(ClearWall(g, current, "left"), next, "right")
        ELSE g

removeWallBetween(g, current, next) ==
    LET dx == next.col - current.col
        dy == next.row - current.row
    IN  IF dx = 1 THEN ClearWall(ClearWall(g, current, "right"), next, "left")
        ELSE IF dx = -1 THEN ClearWall(ClearWall(g, current, "left"), next, "right")
        ELSE IF dy = 1 THEN ClearWall(ClearWall(g, current, "bottom"), next, "top")
        ELSE IF dy = -1 THEN ClearWall(ClearWall(g, current, "top"), next, "bottom")
        ELSE g

\* cell.visited = true
MarkVisited(g, cell) ==
    [g EXCEPT ![cell.row + 1][cell.col + 1].visited = TRUE]

\* variant: only the first row is tested, not its first cell
StartCellMissing_RowsOnly(g) == Len(g) = 0

\* const startCell = grid[0]?.[0]; if (!startCell) throw ...
StartCellMissing(g) == ~HasCell(g, 0, 0)

\* Math.floor(Math.random() * n) for Math.random() = k / RandomResolution
RandomIndex(k, n) == (k * n) \div RandomResolution

\* variant: end is (rows, cols)
MazeResult_EndOffByOne(rws, cls, g) ==
    [rows |-> rws, cols |-> cls, cells |-> g,
     start |-> [row |-> 0, col |-> 0],
     end |-> [row |-> rws, col |-> cls]]

\* the object literal generateMaze returns
MazeResult(rws, cls, g) ==
    [rows |-> rws, cols |-> cls, cells |-> g,
     start |-> [row |-> 0, col |-> 0],
     end |-> [row |-> rws - 1, col |-> cls - 1]]

\* -------------------------------------------------------------- renderer

\* DEFAULT_OPTIONS, with the default offsetX = 0, offsetY = 0 of renderMaze
DEFAULT_OPTIONS == [offsetX |-> 0, offsetY |-> 0, cellSize |-> 20, wallThickness |-> 4]

\* The calls of renderMaze: renderMazesToContainer (cellSize 16,
\* wallThickness 3) and exportToPdf (cellSize 20, wallThickness 4), both at
\* offset (0, 0).
RenderCalls ==
    { [offsetX |-> 0, offsetY |-> 0, cellSize |-> 16, wallThickness |-> 3],
      [offsetX |-> 0, offsetY |-> 0, cellSize |-> 20, wallThickness |-> 4] }

\* Coordinates are kept doubled, because halfWall = wallThickness / 2 is a
\* half-integer for an odd wallThickness:
\*   2 * (offsetX + c * cellSize + halfWall)
CellX(opts, c) == 2 * opts.offsetX + 2 * c * opts.cellSize + opts.wallThickness

CellY(opts, r) == 2 * opts.offsetY + 2 * r * opts.cellSize + opts.wallThickness

\* beginPath(); moveTo(x1, y1); lineTo(x2, y2); stroke()  -- made while
\* drawing wall `side` of cell (r, c)
Stroke(x1, y1, x2, y2, r, c, side) ==
    [from |-> <<x1, y1>>, to |-> <<x2, y2>>, cell |-> Ref(r, c), side |-> side]

\* variant: the right wall is drawn for every cell
DrawsRight_NoBorderTest(mz, c, cell) == cell.walls.right

\* c === maze.cols - 1 && cell.walls.right
DrawsRight(mz, c, cell) == c = mz.cols - 1 /\ cell.walls.right

\* r === maze.rows - 1 && cell.walls.bottom
DrawsBottom(mz, r, cell) == r = mz.rows - 1 /\ cell.walls.bottom

\* The body of the two loops of renderMaze for cell (r, c): the strokes it
\* makes, in order.
RenderCell(mz, opts, r, c) ==
    IF ~HasCell(mz.cells, r, c) THEN <<>>
    ELSE
      LET cell == CellAt(mz.cells, r, c)
          x == CellX(opts, c)
          y == CellY(opts, r)
          size == 2 * opts.cellSize
      IN  (IF cell.walls.top
             THEN <<Stroke(x, y, x + size, y, r, c, "top")>> ELSE <<>>)
          \o (IF cell.walls.left
             THEN <<Stroke(x, y, x, y + size, r, c, "left")>> ELSE <<>>)
          \o (IF DrawsRight(mz, c, cell)
             THEN <<Stroke(x + size, y, x + size, y + size, r, c, "right")>> ELSE <<>>)
          \o (IF DrawsBottom(mz, r, cell)
             THEN <<Stroke(x, y + size, x + size, y + size, r, c, "bottom")>> ELSE <<>>)

\* for (c = from; c < maze.cols; c++) ...
RECURSIVE RenderRow(_, _, _, _)
RenderRow(mz, opts, r, c) ==
    IF c < mz.cols
    THEN RenderCell(mz, opts, r, c) \o RenderRow(mz, opts, r, c + 1)
    ELSE <<>>

\* for (r = from; r < maze.rows; r++) ...
RECURSIVE RenderRows(_, _, _)
RenderRows(mz, opts, r) ==
    IF r < mz.rows
    THEN RenderRow(mz, opts, r, 0) \o RenderRows(mz, opts, r + 1)
    ELSE <<>>

\* --------------------------------------------------------------- actions

Init ==
    /\ rows \in (0 - MaxNeg)..MaxRows
    /\ cols \in (0 - MaxNeg)..MaxCols
    /\ grid = <<>>
    /\ stack = <<>>
    /\ pc = "call"
    /\ maze = NoMaze
    /\ pushes = <<>>
    /\ options = DEFAULT_OPTIONS
    /\ strokes = <<>>

\* generateMaze, lines 92-101: the grid is created, and either the start
\* cell is missing and the call throws, or it is marked visited and pushed.
GenerateStart ==
    /\ pc = "call"
    /\ LET g == createGrid(rows, cols) IN
         IF StartCellMissing(g)
         THEN /\ pc' = "error"
              /\ grid' = g
              /\ UNCHANGED <<stack, pushes>>
         ELSE /\ grid' = MarkVisited(g, Ref(0, 0))
              /\ stack' = Append(stack, Ref(0, 0))
              /\ pushes' = Append(pushes, Ref(0, 0))
              /\ pc' = "loop"
    /\ UNCHANGED <<rows, cols, maze, options, strokes>>

\* One iteration of the while loop in which the top of the stack has no
\* unvisited neighbour: stack.pop().
Backtrack ==
    /\ pc = "loop"
    /\ Len(stack) > 0
    /\ getUnvisitedNeighbors(grid, stack[Len(stack)]) = <<>>
    /\ stack' = SubSeq(stack, 1, Len(stack) - 1)
    /\ UNCHANGED <<rows, cols, grid, pc, maze, pushes, options, strokes>>

\* One iteration of the while loop in which the top of the stack has an
\* unvisited neighbour: one is drawn at random, the wall to it is removed,
\* it is marked visited and pushed.
Carve ==
    /\ pc = "loop"
    /\ Len(stack) > 0
    /\ LET current == stack[Len(stack)]
           neighbors == getUnvisitedNeighbors(grid, current)
       IN  /\ Len(neighbors) > 0
           /\ \E k \in 0..(RandomResolution - 1) :
                LET next == neighbors[RandomIndex(k, Len(neighbors)) + 1] IN
                  /\ grid' = MarkVisited(removeWallBetween(grid, current, next), next)
                  /\ stack' = Append(stack, next)
                  /\ pushes' = Append(pushes, next)
    /\ UNCHANGED <<rows, cols, pc, maze, options, strokes>>

\* The while loop ends on an empty stack and the Maze is returned.
Return ==
    /\ pc = "loop"
    /\ Len(stack) = 0
    /\ maze' = MazeResult(rows, cols, grid)
    /\ pc' = "returned"
    /\ UNCHANGED <<rows, cols, grid, stack, pushes, options, strokes>>

\* renderMaze(ctx, maze, offsetX, offsetY, options) on the returned maze:
\* the wall-drawing loops (the background fill and the two stars stroke
\* nothing).
Render ==
    /\ pc = "returned"
    /\ \E opts \in RenderCalls :
         /\ options' = opts
         /\ strokes' = RenderRows(maze, opts, 0)
    /\ pc' = "rendered"
    /\ UNCHANGED <<rows, cols, grid, stack, maze, pushes>>

Next == GenerateStart \/ Backtrack \/ Carve \/ Return \/ Render

Spec == Init /\ [][Next]_vars

\* generateMaze is one synchronous call: once entered, its statements run to
\* the return or the throw.
Generate == GenerateStart \/ Backtrack \/ Carve \/ Return

FairSpec == Init /\ [][Next]_vars /\ WF_vars(Generate)

\* ------------------------------------------------- the passage graph

AllCells(g) == { Ref(r - 1, c - 1) : r \in DOMAIN g, c \in 1..(IF Len(g) > 0 THEN Len(g[1]) ELSE 0) }

Walls(g, cell) == CellAt(g, cell.row, cell.col).walls

Visited(g, cell) == CellAt(g, cell.row, cell.col).visited

Opposite(side) ==
    CASE side = "top" -> "bottom"
      [] side = "bottom" -> "top"
      [] side = "left" -> "right"
      [] side = "right" -> "left"

\* the cell on the given side of `cell` (it may lie outside the grid)
Toward(cell, side) ==
    CASE side = "top" -> Ref(cell.row - 1, cell.col)
      [] side = "bottom" -> Ref(cell.row + 1, cell.col)
      [] side = "left" -> Ref(cell.row, cell.col - 1)
      [] side = "right" -> Ref(cell.row, cell.col + 1)

\* the side of `a` that faces `b`, for grid-adjacent a and b
Facing(a, b) == CHOOSE side \in Sides : Toward(a, side) = b

Adjacent(a, b) == \E side \in Sides : Toward(a, side) = b

\* no wall between the grid-adjacent cells a and b
NoWallBetween(g, a, b) ==
    /\ Adjacent(a, b)
    /\ ~Walls(g, a)[Facing(a, b)]
    /\ ~Walls(g, b)[Facing(b, a)]

InGrid(g, cell) == HasCell(g, cell.row, cell.col)

\* the cells a passage leads to from `cell`
Passages(g, cell) ==
    { b \in { Toward(cell, side) : side \in Sides } : InGrid(g, b) /\ NoWallBetween(g, cell, b) }

Edges(g) == UNION { { {a, b} : b \in Passages(g, a) } : a \in AllCells(g) }

\* the cells at most n hops from the cells of `from`
RECURSIVE Within(_, _, _)
Within(g, from, n) ==
    IF n = 0 THEN from
    ELSE LET near == Within(g, from, n - 1)
         IN  near \cup UNION { Passages(g, cell) : cell \in near }

Reachable(g, from) == Within(g, {from}, Cardinality(AllCells(g)))

\* passages are undirected, so the graph is connected exactly when every
\* cell is reachable from one of them
Connected(g) == \A a \in AllCells(g) : a = Ref(0, 0) => Reachable(g, a) = AllCells(g)

\* A graph is a forest exactly when stripping cells with at most one
\* remaining passage, again and again, strips every cell.
RECURSIVE Strip(_, _)
Strip(g, left) ==
    LET leaves == { a \in left : Cardinality(Passages(g, a) \cap left) <= 1 }
    IN  IF leaves = {} THEN left ELSE Strip(g, left \ leaves)

Acyclic(g) == Strip(g, AllCells(g)) = {}

\* the number of hops of the shortest path from a to b, for b reachable from a
Hops(g, a, b) ==
    CHOOSE n \in 0..Cardinality(AllCells(g)) :
        /\ b \in Within(g, {a}, n)
        /\ \A m \in 0..(n - 1) : b \notin Within(g, {a}, m)

Done == pc \in {"returned", "rendered"}

\* ---------------------------------------------------------------- claims

\* C1: for rows > 0 and cols > 0 and every sequence of random choices, the
\* maze generateMaze returns is a perfect maze: the passage graph is
\* connected, acyclic and has exactly rows * cols - 1 edges, so the end cell
\* (rows - 1, cols - 1) is reachable from the start cell (0, 0).
C1_PerfectMaze ==
    Done =>
        /\ rows > 0 /\ cols > 0
        /\ maze.rows = rows /\ maze.cols = cols
        /\ Cardinality(AllCells(maze.cells)) = rows * cols
        /\ Connected(maze.cells)
        /\ Acyclic(maze.cells)
        /\ Cardinality(Edges(maze.cells)) = rows * cols - 1
        /\ maze.start = Ref(0, 0)
        /\ maze.end = Ref(rows - 1, cols - 1)
        /\ maze.end \in Reachable(maze.cells, maze.start)

\* a returned maze of the largest size that branches (some cell has three
\* passages), so it is not a single corridor
C1_Witness ==
    /\ pc = "returned"
    /\ rows = MaxRows /\ cols = MaxCols
    /\ \E cell \in AllCells(maze.cells) : Cardinality(Passages(maze.cells, cell)) = 3

\* C2: generateMaze with rows <= 0 or cols <= 0 ends in the error outcome
\* before any carving: no cell is visited, no wall is cleared, nothing has
\* been pushed on the stack and no Maze is returned.
C2_InvalidGridSize ==
    ((rows <= 0 \/ cols <= 0) /\ pc # "call") =>
        /\ pc = "error"
        /\ stack = <<>>
        /\ pushes = <<>>
        /\ maze = NoMaze
        /\ \A r \in DOMAIN grid : \A c \in DOMAIN grid[r] :
              ~grid[r][c].visited /\ \A side \in Sides : grid[r][c].walls[side]

\* generateMaze(rows, 0) with rows > 0 has thrown: the grid has rows rows
\* and no cell
C2_Witness == pc = "error" /\ rows > 0 /\ cols = 0 /\ Len(grid) = rows

BoundaryWallsIntact(g) ==
    \A cell \in AllCells(g) :
        /\ cell.row = 0 => Walls(g, cell).top
        /\ cell.row = Len(g) - 1 => Walls(g, cell).bottom
        /\ cell.col = 0 => Walls(g, cell).left
        /\ cell.col = Len(g[1]) - 1 => Walls(g, cell).right

\* C4: outer boundary walls are never removed, in every state of
\* generateMaze and in the returned maze: cells of row 0 keep walls.top,
\* of row rows - 1 walls.bottom, of column 0 walls.left, of column cols - 1
\* walls.right.
C4_BoundaryWalls == BoundaryWallsIntact(grid) /\ BoundaryWallsIntact(maze.cells)

\* a returned maze in which every border cell has been carved into
C4_Witness ==
    /\ pc = "returned"
    /\ rows >= 3 /\ cols >= 3
    /\ \A cell \in AllCells(maze.cells) : Passages(maze.cells, cell) # {}

\* C5: generateMaze(1, n) returns a corridor: no wall between consecutive
\* cells (0, c), (0, c + 1), and every cell keeps its top and bottom wall;
\* symmetrically for generateMaze(n, 1) with left and right walls.
C5_Degenerate ==
    Done =>
        /\ rows = 1 =>
             /\ \A c \in 0..(cols - 2) :
                   NoWallBetween(maze.cells, Ref(0, c), Ref(0, c + 1))
             /\ \A c \in 0..(cols - 1) :
                   Walls(maze.cells, Ref(0, c)).top /\ Walls(maze.cells, Ref(0, c)).bottom
        /\ cols = 1 =>
             /\ \A r \in 0..(rows - 2) :
                   NoWallBetween(maze.cells, Ref(r, 0), Ref(r + 1, 0))
             /\ \A r \in 0..(rows - 1) :
                   Walls(maze.cells, Ref(r, 0)).left /\ Walls(maze.cells, Ref(r, 0)).right

\* a single row of the largest length has been returned
C5_Witness == pc = "returned" /\ rows = 1 /\ cols = MaxCols /\ cols >= 3

\* C6: every maze generateMaze(2, 2) returns has start (0, 0), end (1, 1)
\* and a path of carved passages from start to end of at most 2 hops.
C6_TwoByTwo ==
    (Done /\ rows = 2 /\ cols = 2) =>
        /\ maze.start = Ref(0, 0)
        /\ maze.end = Ref(1, 1)
        /\ maze.end \in Reachable(maze.cells, maze.start)
        /\ Hops(maze.cells, maze.start, maze.end) <= 2

\* a 2 x 2 maze has been returned whose first passage goes down
C6_Witness ==
    /\ pc = "returned" /\ rows = 2 /\ cols = 2
    /\ NoWallBetween(maze.cells, Ref(0, 0), Ref(1, 0))

WallSymmetry(g) ==
    \A a \in AllCells(g) :
        /\ Toward(a, "right") \in AllCells(g) =>
              Walls(g, a).right = Walls(g, Toward(a, "right")).left
        /\ Toward(a, "bottom") \in AllCells(g) =>
              Walls(g, a).bottom = Walls(g, Toward(a, "bottom")).top

\* the wall flags <<cell, side>> that are set in g and clear in h
Cleared(g, h) ==
    { f \in AllCells(g) \X Sides : Walls(g, f[1])[f[2]] /\ ~Walls(h, f[1])[f[2]] }

CarvingStepClearsOnePair ==
    (pc = "loop" /\ Len(stack') = Len(stack) + 1) =>
        LET current == stack[Len(stack)]
            next == stack'[Len(stack')]
        IN  /\ Adjacent(current, next)
            /\ Cleared(grid, grid') =
                  { <<current, Facing(current, next)>>, <<next, Facing(next, current)>> }
            /\ Cleared(grid', grid) = {}
            /\ Facing(next, current) = Opposite(Facing(current, next))

\* C3: wall symmetry holds in the returned maze and in every state between
\* carving steps: A.walls.right = B.walls.left for A = (r, c), B = (r, c + 1)
\* and A.walls.bottom = B.walls.top for A = (r, c), B = (r + 1, c); and each
\* carving step clears exactly one wall flag of the current cell and the
\* opposite flag of the chosen neighbour.
C3_WallSymmetry ==
    /\ [](WallSymmetry(grid) /\ WallSymmetry(maze.cells))
    /\ [][CarvingStepClearsOnePair]_vars

\* a returned maze with a wall left standing between two adjacent cells and
\* a passage carved between two others
C3_Witness ==
    /\ pc = "returned"
    /\ \E a \in AllCells(maze.cells) :
          /\ Toward(a, "right") \in AllCells(maze.cells)
          /\ Walls(maze.cells, a).right
          /\ Walls(maze.cells, Toward(a, "right")).left
    /\ \E a \in AllCells(maze.cells) :
          /\ Toward(a, "bottom") \in AllCells(maze.cells)
          /\ ~Walls(maze.cells, a).bottom
          /\ ~Walls(maze.cells, Toward(a, "bottom")).top

\* the ends of the segment on which wall `side` of `cell` lies
WallSegment(opts, cell, side) ==
    LET x0 == CellX(opts, cell.col)
        y0 == CellY(opts, cell.row)
        x1 == CellX(opts, cell.col + 1)
        y1 == CellY(opts, cell.row + 1)
    IN  CASE side = "top" -> <<<<x0, y0>>, <<x1, y0>>>>
          [] side = "bottom" -> <<<<x0, y1>>, <<x1, y1>>>>
          [] side = "left" -> <<<<x0, y0>>, <<x0, y1>>>>
          [] side = "right" -> <<<<x1, y0>>, <<x1, y1>>>>

\* how many strokes run along the segment
TimesStroked(segment) ==
    Cardinality({ i \in DOMAIN strokes : <<strokes[i].from, strokes[i].to>> = segment })

\* C8: for a returned maze renderMaze strokes every wall segment that is
\* present exactly once and no segment whose wall is absent; right walls are
\* stroked only for cells with col = cols - 1 and bottom walls only for
\* cells with row = rows - 1, so an interior wall is stroked only as the
\* top or left wall of the lower or right cell.
C8_WallsStrokedOnce ==
    pc = "rendered" =>
        /\ \A cell \in AllCells(maze.cells) : \A side \in Sides :
              TimesStroked(WallSegment(options, cell, side)) =
                  IF Walls(maze.cells, cell)[side] THEN 1 ELSE 0
        /\ \A i \in DOMAIN strokes :
              /\ strokes[i].cell \in AllCells(maze.cells)
              /\ <<strokes[i].from, strokes[i].to>> =
                    WallSegment(options, strokes[i].cell, strokes[i].side)
              /\ strokes[i].side = "right" => strokes[i].cell.col = maze.cols - 1
              /\ strokes[i].side = "bottom" => strokes[i].cell.row = maze.rows - 1

\* a rendered maze with an interior wall standing to the right of a cell
\* that is not in the last column, and an odd wall thickness
C8_Witness ==
    /\ pc = "rendered"
    /\ options.wallThickness = 3
    /\ \E cell \in AllCells(maze.cells) :
          /\ cell.col < maze.cols - 1
          /\ Walls(maze.cells, cell).right
          /\ TimesStroked(WallSegment(options, cell, "right")) = 1

PushedOnce ==
    /\ \A i \in DOMAIN pushes : \A j \in DOMAIN pushes : i # j => pushes[i] # pushes[j]
    /\ \A cell \in AllCells(grid) :
          Visited(grid, cell) <=> \E i \in DOMAIN pushes : pushes[i] = cell

AllVisitedOnce ==
    /\ stack = <<>>
    /\ Cardinality(AllCells(grid)) = rows * cols
    /\ \A cell \in AllCells(grid) : Visited(grid, cell)
    /\ Len(pushes) = rows * cols

StaysVisited ==
    \A cell \in AllCells(grid) :
        Visited(grid, cell) => cell \in AllCells(grid') /\ Visited(grid', cell)

\* C9: for rows > 0 and cols > 0 the carving loop terminates with an empty
\* stack under every sequence of random choices, with every cell visited;
\* each cell is marked visited and pushed exactly once: a cell never goes
\* from visited back to unvisited and is never pushed twice.
C9_Termination ==
    /\ (rows > 0 /\ cols > 0) => <>(pc = "returned" /\ AllVisitedOnce)
    /\ [](PushedOnce /\ (Done => AllVisitedOnce))
    /\ [][StaysVisited]_vars

\* the largest grid has been carved to the end after backtracking from a
\* dead end with cells still unvisited
C9_Witness ==
    /\ pc = "returned" /\ AllVisitedOnce
    /\ rows = MaxRows /\ cols = MaxCols
    /\ \E i \in 1..(Len(pushes) - 1) : ~Adjacent(pushes[i], pushes[i + 1])

\* C10: in every state of the carving loop the stack is empty or has (0, 0)
\* at its bottom, holds pairwise distinct visited cells, and consecutive
\* entries are grid-adjacent with the wall between them removed; every
\* unvisited cell still has all four walls.
C10_StackPath ==
    pc = "loop" =>
        /\ stack # <<>> => stack[1] = Ref(0, 0)
        /\ \A i \in DOMAIN stack : \A j \in DOMAIN stack : i # j => stack[i] # stack[j]
        /\ \A i \in DOMAIN stack :
              stack[i] \in AllCells(grid) /\ Visited(grid, stack[i])
        /\ \A i \in 1..(Len(stack) - 1) : NoWallBetween(grid, stack[i], stack[i + 1])
        /\ \A cell \in AllCells(grid) :
              ~Visited(grid, cell) => \A side \in Sides : Walls(grid, cell)[side]

\* mid-run: a path of three cells on the stack, a visited cell already
\* backtracked off it, and a cell not yet visited
C10_Witness ==
    /\ pc = "loop"
    /\ Len(stack) >= 3
    /\ \E cell \in AllCells(grid) :
          Visited(grid, cell) /\ \A i \in DOMAIN stack : stack[i] # cell
    /\ \E cell \in AllCells(grid) : ~Visited(grid, cell)

====
